---------------------------- MODULE Spec2Model ----------------------------
(***************************************************************************)
(* WALLY-S navigation and motion control: the PID controller (pid.c), the  *)
(* heading filter (magnetometer.c), the target bookkeeping (gps.c), the    *)
(* command parser (bluetooth.c) and the integration loop (WALLY_S.c).      *)
(*                                                                         *)
(* C doubles are modelled as exact rationals <<n, d>> in lowest terms with *)
(* d > 0; the 32-bit microsecond counter is modelled as a pair <<hi, lo>>  *)
(* of 16-bit halves so that its wrap-around at 2^32 is kept.               *)
(***************************************************************************)
EXTENDS Integers, Sequences, FiniteSets, TLC

(***************************************************************************)
(* Rational arithmetic                                                     *)
(***************************************************************************)
Abs(n) == IF n < 0 THEN -n ELSE n

RECURSIVE GCD(_, _)
GCD(a, b) == IF b = 0 THEN a ELSE GCD(b, a % b)

RNorm(n, d) ==
    LET g == GCD(Abs(n), Abs(d))
        s == IF d < 0 THEN -1 ELSE 1
    IN  <<(s * n) \div g, (s * d) \div g>>

R(n) == <<n, 1>>

RNeg(a) == <<-a[1], a[2]>>

RAdd(a, b) ==
    LET g == GCD(a[2], b[2])
    IN  RNorm(a[1] * (b[2] \div g) + b[1] * (a[2] \div g), (a[2] \div g) * b[2])

RSub(a, b) == RAdd(a, RNeg(b))

RMul(a, b) ==
    LET g1 == GCD(Abs(a[1]), b[2])
        g2 == GCD(Abs(b[1]), a[2])
    IN  <<(a[1] \div g1) * (b[1] \div g2), (a[2] \div g2) * (b[2] \div g1)>>

RInv(a) == IF a[1] > 0 THEN <<a[2], a[1]>> ELSE <<-a[2], -a[1]>>

RDiv(a, b) == RMul(a, RInv(b))

RLt(a, b) == RSub(a, b)[1] < 0

RLe(a, b) == RSub(a, b)[1] <= 0

RGt(a, b) == RLt(b, a)

RGe(a, b) == RLe(b, a)

\* (int)x of C: conversion of a double to int truncates toward zero
RTrunc(a) == IF a[1] >= 0 THEN a[1] \div a[2] ELSE -((-a[1]) \div a[2])

(***************************************************************************)
(* The 32-bit microsecond counter time_us_32(), as <<hi, lo>> halves       *)
(***************************************************************************)
Half == 65536

\* t + d (mod 2^32) for 0 <= d < 2^31
U32Add(t, d) ==
    LET lo == t[2] + (d % Half)
        hi == t[1] + (d \div Half) + (lo \div Half)
    IN  <<hi % Half, lo % Half>>

\* (uint32_t)(a - b): the difference modulo 2^32, as halves
U32Sub(a, b) ==
    LET borrow == IF a[2] < b[2] THEN 1 ELSE 0
        lo == a[2] - b[2] + borrow * Half
        hi == (a[1] - b[1] - borrow + Half) % Half
    IN  <<hi, lo>>

\* the value of a counter difference as an integer (differences in the model
\* stay below 2^31)
U32Val(t) == t[1] * Half + t[2]

(***************************************************************************)
(* config.h                                                                *)
(***************************************************************************)
KP_DIR == <<2, 1>>
KI_DIR == <<1, 10>>
KD_DIR == <<1, 5>>
LOOP_INTERVAL_MS == 50
BASE_SPEED_A == 180
BASE_SPEED_B == 190
MIN_SPEED == 30
MAX_SPEED == 255

(***************************************************************************)
(* pid.c                                                                   *)
(***************************************************************************)
\* a pid_controller_t in static storage before pid_init: all fields zero
PidZero ==
    [kp |-> R(0), ki |-> R(0), kd |-> R(0), setpoint |-> R(0),
     last_input |-> R(0), integral_sum |-> R(0),
     output_min |-> R(0), output_max |-> R(0),
     last_time |-> <<0, 0>>, initialized |-> FALSE]

pid_init(pid, kp, ki, kd, output_min, output_max, now) ==
    [kp |-> kp, ki |-> ki, kd |-> kd, setpoint |-> R(0),
     last_input |-> R(0), integral_sum |-> R(0),
     output_min |-> output_min, output_max |-> output_max,
     last_time |-> now, initialized |-> TRUE]

pid_set_setpoint(pid, setpoint) ==
    IF ~pid.initialized THEN pid
    ELSE [pid EXCEPT !.setpoint = setpoint]

\* PidDt with the difference taken as a signed number: negative when the
\* counter has wrapped since last_time
PidDt_Signed(pid, current_time) ==
    IF current_time[1] < pid.last_time[1]
       \/ (current_time[1] = pid.last_time[1] /\ current_time[2] < pid.last_time[2])
    THEN R(-1)
    ELSE RNorm(U32Val(U32Sub(current_time, pid.last_time)), 1000000)

\* dt = (current_time - pid->last_time) / 1000000.0, the subtraction in uint32_t
PidDt(pid, current_time) ==
    RNorm(U32Val(U32Sub(current_time, pid.last_time)), 1000000)

\* pid_compute, lines 62-87: saturation, anti-windup and the state update
PidSaturate(pid, input, current_time, proportional, sum1, derivative, output) ==
    LET integral_max ==
            RDiv(RAdd(RSub(pid.output_max, proportional), derivative), pid.ki)
        integral_min ==
            RDiv(RAdd(RSub(pid.output_min, proportional), derivative), pid.ki)
    IN  IF RGt(output, pid.output_max)
        THEN [pid |-> [pid EXCEPT
                        !.integral_sum =
                            IF pid.ki # R(0) /\ RGt(sum1, integral_max)
                            THEN integral_max ELSE sum1,
                        !.last_input = input,
                        !.last_time = current_time],
              out |-> pid.output_max]
        ELSE IF RLt(output, pid.output_min)
        THEN [pid |-> [pid EXCEPT
                        !.integral_sum =
                            IF pid.ki # R(0) /\ RLt(sum1, integral_min)
                            THEN integral_min ELSE sum1,
                        !.last_input = input,
                        !.last_time = current_time],
              out |-> pid.output_min]
        ELSE [pid |-> [pid EXCEPT !.integral_sum = sum1,
                                  !.last_input = input,
                                  !.last_time = current_time],
              out |-> output]

\* pid_compute, line 60: output = proportional + integral - derivative, with
\* integral = ki * integral_sum
PidOutput(pid, input, current_time, proportional, sum1, derivative) ==
    PidSaturate(pid, input, current_time, proportional, sum1, derivative,
                RSub(RAdd(proportional, RMul(pid.ki, sum1)), derivative))

\* PidTerms with the derivative taken on the error instead of the input
PidTerms_DerivativeOnError(pid, input, current_time, dt, error) ==
    PidOutput(pid, input, current_time,
              RMul(pid.kp, error),
              RAdd(pid.integral_sum, RMul(error, dt)),
              RDiv(RMul(pid.kd, RSub(error, RSub(pid.setpoint, pid.last_input))), dt))

\* pid_compute, lines 46-57: the three terms from error and dt
PidTerms(pid, input, current_time, dt, error) ==
    PidOutput(pid, input, current_time,
              RMul(pid.kp, error),
              RAdd(pid.integral_sum, RMul(error, dt)),
              RDiv(RMul(pid.kd, RSub(input, pid.last_input)), dt))

\* PidStep that records the input before it tests dt
PidStep_StoresInput(pid, input, current_time, dt) ==
    IF RLe(dt, R(0)) THEN [pid |-> [pid EXCEPT !.last_input = input], out |-> R(0)]
    ELSE PidTerms(pid, input, current_time, dt, RSub(pid.setpoint, input))

\* pid_compute, lines 41-47, once the controller is known to be initialized
PidStep(pid, input, current_time, dt) ==
    IF RLe(dt, R(0)) THEN [pid |-> pid, out |-> R(0)]
    ELSE PidTerms(pid, input, current_time, dt, RSub(pid.setpoint, input))

\* pid_compute: the controller after the call and the value returned
pid_compute(pid, input, current_time) ==
    IF ~pid.initialized THEN [pid |-> pid, out |-> R(0)]
    ELSE PidStep(pid, input, current_time, PidDt(pid, current_time))

\* pid_reset that keeps the accumulated integral
pid_reset_KeepsIntegral(pid, now) ==
    IF ~pid.initialized THEN pid
    ELSE [pid EXCEPT !.last_input = R(0), !.last_time = now]

pid_reset(pid, now) ==
    IF ~pid.initialized THEN pid
    ELSE [pid EXCEPT !.integral_sum = R(0),
                     !.last_input = R(0),
                     !.last_time = now]

pid_tune(pid, kp, ki, kd, now) ==
    IF ~pid.initialized THEN pid
    ELSE pid_reset([pid EXCEPT !.kp = kp, !.ki = ki, !.kd = kd], now)

\* pid_set_output_limits, lines 116-125
ClampIntegral(pid, max_integral, min_integral) ==
    IF RGt(pid.integral_sum, max_integral)
    THEN [pid EXCEPT !.integral_sum = max_integral]
    ELSE IF RLt(pid.integral_sum, min_integral)
    THEN [pid EXCEPT !.integral_sum = min_integral]
    ELSE pid

pid_set_output_limits(pid, output_min, output_max) ==
    IF ~pid.initialized THEN pid
    ELSE IF pid.ki = R(0)
    THEN [pid EXCEPT !.output_min = output_min, !.output_max = output_max]
    ELSE ClampIntegral([pid EXCEPT !.output_min = output_min,
                                   !.output_max = output_max],
                       RDiv(output_max, pid.ki), RDiv(output_min, pid.ki))

\* pid_heading_error: the two while loops fold the difference into [-180, 180]
\* FoldDown that subtracts one turn at most
FoldDown_Once(e) == IF RGt(e, R(180)) THEN RSub(e, R(360)) ELSE e

RECURSIVE FoldDown(_)
FoldDown(e) == IF RGt(e, R(180)) THEN FoldDown(RSub(e, R(360))) ELSE e

RECURSIVE FoldUp(_)
FoldUp(e) == IF RLt(e, R(-180)) THEN FoldUp(RAdd(e, R(360))) ELSE e

pid_heading_error(setpoint, input) == FoldUp(FoldDown(RSub(setpoint, input)))


(***************************************************************************)
(* magnetometer.c                                                          *)
(***************************************************************************)
\* static const double ALPHA = 0.6
ALPHA == <<3, 5>>

\* static double declination_angle = 0.0404
declination_angle == <<101, 2500>>

\* atan2(y, x) in radians at the raw samples used here, as rationals within
\* 0.002 of the true value (pi/2, pi, -3pi/4, pi/4, 1.9029, -3.1404)
Atan2(y, x) ==
    CASE y = 1  /\ x = 0  -> <<35341, 22500>>
      [] y = 0  /\ x = -1 -> <<5893, 1875>>
      [] y = -1 /\ x = -1 -> <<-8839, 3750>>
      [] y = 1  /\ x = 1  -> <<4429, 5625>>
      [] y = 29 /\ x = -10 -> <<42841, 22500>>
      [] y = -12 /\ x = -10000 -> <<-7851, 2500>>

\* if (h < 0) h += 360; else if (h >= 360) h -= 360;
WrapOnce(h) ==
    IF RLt(h, R(0)) THEN RAdd(h, R(360))
    ELSE IF RGe(h, R(360)) THEN RSub(h, R(360))
    ELSE h

magnetometer_calculate_heading(x, y) ==
    WrapOnce(RAdd(RMul(Atan2(y, x), R(180)), RMul(declination_angle, R(180))))

\* the outcome of magnetometer_read_raw: a failed read, or a sample <<x, y>>
ReadFailed == <<>>

\* if (difference > 180) difference -= 360; else if (difference < -180) ...
ShorterArc(difference) ==
    IF RGt(difference, R(180)) THEN RSub(difference, R(360))
    ELSE IF RLt(difference, R(-180)) THEN RAdd(difference, R(360))
    ELSE difference

\* magnetometer_get_filtered_heading that restarts from 0 on a failed read
magnetometer_get_filtered_heading_ZeroOnFailure(filtered, raw) ==
    IF raw = ReadFailed THEN R(0)
    ELSE WrapOnce(RAdd(filtered,
            RMul(ALPHA,
                 ShorterArc(RSub(magnetometer_calculate_heading(raw[1], raw[2]),
                                 filtered)))))

\* magnetometer_get_filtered_heading: the stored filtered heading after the
\* call (it is also the value returned)
magnetometer_get_filtered_heading(filtered, raw) ==
    IF raw = ReadFailed THEN filtered
    ELSE WrapOnce(RAdd(filtered,
            RMul(ALPHA,
                 ShorterArc(RSub(magnetometer_calculate_heading(raw[1], raw[2]),
                                 filtered)))))

(***************************************************************************)
(* gps.c                                                                   *)
(***************************************************************************)
\* static gps_data_t current_gps_data = {0}
GpsZero ==
    [latitude |-> R(0), longitude |-> R(0), satellites |-> 0,
     fix_quality |-> 0, fix_valid |-> FALSE]

\* static target_data_t target_data = {0}
TargetZero == [latitude |-> R(0), longitude |-> R(0), target_set |-> FALSE]

\* gps_update with at most one complete GPGGA sentence in the receive
\* buffer; the sentence is given by its decoded fields (parse_gga_sentence)
NoSentence == <<>>

gps_update(data, sentence) ==
    IF sentence = NoSentence THEN data
    ELSE [data EXCEPT !.latitude = sentence[1].latitude,
                      !.longitude = sentence[1].longitude,
                      !.fix_quality = sentence[1].fix_quality,
                      !.satellites = sentence[1].satellites,
                      !.fix_valid = (sentence[1].satellites >= 4
                                     /\ sentence[1].fix_quality > 0)]

gps_set_target(target, lat, lng) ==
    [target EXCEPT !.latitude = lat, !.longitude = lng, !.target_set = TRUE]

gps_has_target(target) == target.target_set

\* The haversine distance (metres, to 0.01) and the initial bearing
\* (degrees, to 0.01) of lines 165-174 and 182-196, tabulated at the
\* coordinates that occur here: positions (0,0), (0,0.00009) and
\* (0,0.000082), targets
\* (0,0.0001), (0.0001,0.0001) and (0,0).
PosA == <<R(0), R(0)>>
PosB == <<R(0), <<9, 100000>>>>
PosC == <<R(0), <<41, 500000>>>>
TgtEast == <<R(0), <<1, 10000>>>>
TgtNorthEast == <<<<1, 10000>>, <<1, 10000>>>>
TgtZero == <<R(0), R(0)>>

Haversine(pos, tgt) ==
    CASE pos = PosA /\ tgt = TgtEast  -> <<278, 25>>
      [] pos = PosA /\ tgt = TgtNorthEast -> <<1573, 100>>
      [] pos = PosA /\ tgt = TgtZero  -> R(0)
      [] pos = PosB /\ tgt = TgtEast  -> <<111, 100>>
      [] pos = PosB /\ tgt = TgtNorthEast -> <<1117, 100>>
      [] pos = PosB /\ tgt = TgtZero  -> <<1001, 100>>
      [] pos = PosC /\ tgt = TgtEast  -> R(2)
      [] pos = PosC /\ tgt = TgtNorthEast -> <<113, 10>>
      [] pos = PosC /\ tgt = TgtZero  -> <<228, 25>>

Bearing(pos, tgt) ==
    CASE pos = PosA /\ tgt = TgtEast  -> R(90)
      [] pos = PosA /\ tgt = TgtNorthEast -> R(45)
      [] pos = PosA /\ tgt = TgtZero  -> R(0)
      [] pos = PosB /\ tgt = TgtEast  -> R(90)
      [] pos = PosB /\ tgt = TgtNorthEast -> <<571, 100>>
      [] pos = PosB /\ tgt = TgtZero  -> R(270)
      [] pos = PosC /\ tgt = TgtEast  -> R(90)
      [] pos = PosC /\ tgt = TgtNorthEast -> <<51, 5>>
      [] pos = PosC /\ tgt = TgtZero  -> R(270)

gps_distance_to_target(data, target) ==
    IF ~data.fix_valid \/ ~target.target_set THEN R(0)
    ELSE Haversine(<<data.latitude, data.longitude>>,
                   <<target.latitude, target.longitude>>)

gps_bearing_to_target(data, target) ==
    IF ~data.fix_valid \/ ~target.target_set THEN R(0)
    ELSE Bearing(<<data.latitude, data.longitude>>,
                 <<target.latitude, target.longitude>>)

\* gps_target_reached with <= in place of <
gps_target_reached_Inclusive(data, target) ==
    RLe(gps_distance_to_target(data, target), R(2))

gps_target_reached(data, target) ==
    RLt(gps_distance_to_target(data, target), R(2))

(***************************************************************************)
(* bluetooth.c                                                             *)
(***************************************************************************)
\* make_timeout_time_ms(100) in bluetooth_read_line
BT_TIMEOUT_MS == 100

\* sizeof(bt_buffer) in integration_test
BT_BUFFER_SIZE == 128

\* characters are one-character strings; "\t" stands for the bytes outside
\* ' '..'~'
IsNewline(c) == c \in {"\n", "\r"}

IsPrintable(c) == c \notin {"\n", "\r", "\t"}

\* bluetooth_read_line on the bytes rx that arrive before the timeout:
\* the buffer contents at return (the return value is its length)
RECURSIVE ReadLineFrom(_, _, _, _)
ReadLineFrom(rx, i, buffer, max_length) ==
    IF ~(Len(buffer) < max_length - 1) \/ i > Len(rx) THEN buffer
    ELSE IF IsNewline(rx[i])
         THEN IF Len(buffer) > 0 THEN buffer
              ELSE ReadLineFrom(rx, i + 1, buffer, max_length)
    ELSE IF IsPrintable(rx[i])
         THEN ReadLineFrom(rx, i + 1, Append(buffer, rx[i]), max_length)
    ELSE ReadLineFrom(rx, i + 1, buffer, max_length)

bluetooth_read_line(rx, max_length) == ReadLineFrom(rx, 1, <<>>, max_length)

\* TRUE when bluetooth_read_line returns from inside the loop (a line end
\* after at least one character) and not by the timeout or a full buffer
RECURSIVE LineEnded(_, _, _, _)
LineEnded(rx, i, n, max_length) ==
    IF ~(n < max_length - 1) \/ i > Len(rx) THEN FALSE
    ELSE IF IsNewline(rx[i])
         THEN IF n > 0 THEN TRUE ELSE LineEnded(rx, i + 1, n, max_length)
    ELSE IF IsPrintable(rx[i]) THEN LineEnded(rx, i + 1, n + 1, max_length)
    ELSE LineEnded(rx, i + 1, n, max_length)

\* atof on a decimal literal: optional blanks, optional sign, digits with an
\* optional fraction; conversion stops at the first other character and
\* yields 0 when there is no digit
IsDigit(c) == c \in {"0", "1", "2", "3", "4", "5", "6", "7", "8", "9"}

DigitVal(c) ==
    CASE c = "0" -> 0 [] c = "1" -> 1 [] c = "2" -> 2 [] c = "3" -> 3
      [] c = "4" -> 4 [] c = "5" -> 5 [] c = "6" -> 6 [] c = "7" -> 7
      [] c = "8" -> 8 [] c = "9" -> 9

RECURSIVE SkipBlanks(_, _)
SkipBlanks(s, i) ==
    IF i <= Len(s) /\ s[i] = " " THEN SkipBlanks(s, i + 1) ELSE i

RECURSIVE ScanDigits(_, _)
ScanDigits(s, i) ==
    IF i <= Len(s) /\ IsDigit(s[i]) THEN 1 + ScanDigits(s, i + 1) ELSE 0

RECURSIVE DigitsVal(_, _, _)
DigitsVal(s, i, n) ==
    IF n = 0 THEN 0 ELSE DigitsVal(s, i, n - 1) * 10 + DigitVal(s[i + n - 1])

RECURSIVE Pow10(_)
Pow10(n) == IF n = 0 THEN 1 ELSE 10 * Pow10(n - 1)

atof(s) ==
    LET i0 == SkipBlanks(s, 1)
        signed == i0 <= Len(s) /\ s[i0] \in {"-", "+"}
        neg == i0 <= Len(s) /\ s[i0] = "-"
        i1 == IF signed THEN i0 + 1 ELSE i0
        ip == ScanDigits(s, i1)
        dot == i1 + ip <= Len(s) /\ s[i1 + ip] = "."
        fp == IF dot THEN ScanDigits(s, i1 + ip + 1) ELSE 0
        mag == IF ip + fp = 0 THEN R(0)
               ELSE RAdd(R(DigitsVal(s, i1, ip)),
                         RNorm(DigitsVal(s, i1 + ip + 1, fp), Pow10(fp)))
    IN  IF neg THEN RNeg(mag) ELSE mag

\* strchr(command, ','): the index of the first comma, 0 when there is none
StrChrComma(s, i) ==
    IF \E k \in i..Len(s) : s[k] = ","
    THEN CHOOSE k \in i..Len(s) : s[k] = "," /\ \A j \in i..(k - 1) : s[j] # ","
    ELSE 0

\* sizeof(lat_str)
LAT_STR_SIZE == 32

\* line 105: the range check on the converted values
ValidCoordinates(lat, lng) ==
    [ok |-> RGe(lat, R(-90)) /\ RLe(lat, R(90))
            /\ RGe(lng, R(-180)) /\ RLe(lng, R(180)),
     lat |-> lat, lng |-> lng]

\* lines 92-102 for a comma at index comma
SplitAtComma(command, comma) ==
    IF comma - 1 >= LAT_STR_SIZE
    THEN [ok |-> FALSE, lat |-> R(0), lng |-> R(0)]
    ELSE ValidCoordinates(atof(SubSeq(command, 1, comma - 1)),
                          atof(SubSeq(command, comma + 1, Len(command))))

\* the result, and the values left in *lat and *lng (0 stands for the
\* values that are not written)
bluetooth_parse_coordinates(command) ==
    IF StrChrComma(command, 1) = 0
    THEN [ok |-> FALSE, lat |-> R(0), lng |-> R(0)]
    ELSE SplitAtComma(command, StrChrComma(command, 1))

(***************************************************************************)
(* WALLY_S.c: integration_test                                             *)
(***************************************************************************)
VARIABLES
    clock,              \* the hardware counter read by time_us_32()
    filtered_heading,   \* magnetometer.c: static double filtered_heading
    current_gps_data,   \* gps.c: static gps_data_t current_gps_data
    target_data,        \* gps.c: static target_data_t target_data
    heading_pid,        \* WALLY_S.c: static pid_controller_t heading_pid
    navigation_active,  \* integration_test: bool navigation_active
    loop_counter,       \* integration_test: int loop_counter
    motors,             \* the last call made to the motor driver
    tick,               \* what the last loop iteration received and emitted
    ticks,              \* loop iterations so far
    samples,            \* successful magnetometer reads so far
    test_pid,           \* a pid_controller_t driven call by call
    last_call,          \* the last pid_* call on test_pid and what it returned
    calls,              \* pid_* calls so far
    probe,              \* the last call of a function driven on its own
    reader              \* the loop iteration in progress, step by step

vars == <<clock, filtered_heading, current_gps_data, target_data, heading_pid,
          navigation_active, loop_counter, motors, tick, ticks, samples,
          test_pid, last_call, calls, probe, reader>>

loopVars == <<filtered_heading, current_gps_data, target_data, heading_pid,
              navigation_active, loop_counter, motors, tick, ticks, samples>>

unitVars == <<test_pid, last_call, calls>>

\* bounds of the exploration
MaxTicks == 3
MaxSamples == 1
MaxCalls == 4

\* calls to the motor driver (motors.h)
MotorCall(fn, dir_a, speed_a, dir_b, speed_b) ==
    [fn |-> fn, dir_a |-> dir_a, speed_a |-> speed_a,
     dir_b |-> dir_b, speed_b |-> speed_b]

motors_init == MotorCall("motors_init", "-", 0, "-", 0)

motors_stop_all == MotorCall("motors_stop_all", "-", 0, "-", 0)

motors_set_both_motors(dir_a, speed_a, dir_b, speed_b) ==
    MotorCall("motors_set_both_motors", dir_a, speed_a, dir_b, speed_b)

\* speed = (speed < MIN_SPEED) ? MIN_SPEED : (speed > MAX_SPEED) ? MAX_SPEED : speed
LimitSpeed(speed) ==
    IF speed < MIN_SPEED THEN MIN_SPEED
    ELSE IF speed > MAX_SPEED THEN MAX_SPEED
    ELSE speed

\* command lines
STOP == <<"S", "T", "O", "P">>

\* TargetCommand without the pid_reset of line 137
TargetCommand_NoReset(c, nav, target, pid, now) ==
    IF c.ok
    THEN [nav |-> TRUE, target |-> gps_set_target(target, c.lat, c.lng),
          pid |-> pid,
          motor_calls |-> <<>>, bt_sent |-> <<"Objetivo establecido">>]
    ELSE [nav |-> nav, target |-> target, pid |-> pid,
          motor_calls |-> <<>>, bt_sent |-> <<"Formato invalido">>]

\* lines 133-142: a line that is not STOP, with c the result of
\* bluetooth_parse_coordinates
TargetCommand(c, nav, target, pid, now) ==
    IF c.ok
    THEN [nav |-> TRUE, target |-> gps_set_target(target, c.lat, c.lng),
          pid |-> pid_reset(pid, now),
          motor_calls |-> <<>>, bt_sent |-> <<"Objetivo establecido">>]
    ELSE [nav |-> nav, target |-> target, pid |-> pid,
          motor_calls |-> <<>>, bt_sent |-> <<"Formato invalido">>]

\* ProcessCommand whose STOP stops the motors but leaves navigation_active
ProcessCommand_StopKeepsNav(line, nav, target, pid, now) ==
    IF ~(Len(line) > 0)
    THEN [nav |-> nav, target |-> target, pid |-> pid,
          motor_calls |-> <<>>, bt_sent |-> <<>>]
    ELSE IF line = STOP
    THEN [nav |-> nav, target |-> target, pid |-> pid,
          motor_calls |-> <<motors_stop_all>>,
          bt_sent |-> <<"Navegacion detenida">>]
    ELSE TargetCommand(bluetooth_parse_coordinates(line), nav, target, pid, now)

\* lines 124-144: the command received in this iteration.  The result holds
\* the loop state after the command and what was sent.
ProcessCommand(line, nav, target, pid, now) ==
    IF ~(Len(line) > 0)
    THEN [nav |-> nav, target |-> target, pid |-> pid,
          motor_calls |-> <<>>, bt_sent |-> <<>>]
    ELSE IF line = STOP
    THEN [nav |-> FALSE, target |-> target, pid |-> pid,
          motor_calls |-> <<motors_stop_all>>,
          bt_sent |-> <<"Navegacion detenida">>]
    ELSE TargetCommand(bluetooth_parse_coordinates(line), nav, target, pid, now)

\* DriveForward with the correction applied to the wrong sides
DriveForward_Swapped(heading_correction) ==
    motors_set_both_motors(
        "FORWARD", LimitSpeed(BASE_SPEED_A + RTrunc(heading_correction)),
        "FORWARD", LimitSpeed(BASE_SPEED_B - RTrunc(heading_correction)))

\* lines 162-171: the differential correction applied to the motors
DriveForward(heading_correction) ==
    motors_set_both_motors(
        "FORWARD", LimitSpeed(BASE_SPEED_A - RTrunc(heading_correction)),
        "FORWARD", LimitSpeed(BASE_SPEED_B + RTrunc(heading_correction)))

\* lines 158-171, with p1 the controller after pid_set_setpoint and r the
\* result of pid_compute
Steer(nav, p1, r) ==
    [nav |-> nav, pid |-> r.pid,
     motor_calls |-> <<DriveForward(r.out)>>,
     bt_sent |-> <<>>,
     pid_entry |-> <<p1>>, correction |-> <<r.out>>, reached |-> FALSE]

SteerFrom(nav, p1, heading, now) == Steer(nav, p1, pid_compute(p1, heading, now))

\* NavigationControl that does not test gps_data.fix_valid
NavigationControl_IgnoresFix(nav, gps_data, target, pid, heading, now) ==
    IF ~(nav /\ gps_has_target(target))
    THEN [nav |-> nav, pid |-> pid, motor_calls |-> <<>>, bt_sent |-> <<>>,
          pid_entry |-> <<>>, correction |-> <<>>, reached |-> FALSE]
    ELSE IF gps_target_reached(gps_data, target)
    THEN [nav |-> FALSE, pid |-> pid,
          motor_calls |-> <<motors_stop_all>>,
          bt_sent |-> <<"Objetivo alcanzado">>,
          pid_entry |-> <<>>, correction |-> <<>>, reached |-> TRUE]
    ELSE SteerFrom(nav, pid_set_setpoint(pid, gps_bearing_to_target(gps_data, target)),
                   heading, now)

\* NavigationControl that leaves navigation_active set on arrival
NavigationControl_StaysActive(nav, gps_data, target, pid, heading, now) ==
    IF ~(nav /\ gps_data.fix_valid /\ gps_has_target(target))
    THEN [nav |-> nav, pid |-> pid, motor_calls |-> <<>>, bt_sent |-> <<>>,
          pid_entry |-> <<>>, correction |-> <<>>, reached |-> FALSE]
    ELSE IF gps_target_reached(gps_data, target)
    THEN [nav |-> nav, pid |-> pid,
          motor_calls |-> <<motors_stop_all>>,
          bt_sent |-> <<"Objetivo alcanzado">>,
          pid_entry |-> <<>>, correction |-> <<>>, reached |-> TRUE]
    ELSE SteerFrom(nav, pid_set_setpoint(pid, gps_bearing_to_target(gps_data, target)),
                   heading, now)

\* lines 146-176: autonomous navigation control
NavigationControl(nav, gps_data, target, pid, heading, now) ==
    IF ~(nav /\ gps_data.fix_valid /\ gps_has_target(target))
    THEN [nav |-> nav, pid |-> pid, motor_calls |-> <<>>, bt_sent |-> <<>>,
          pid_entry |-> <<>>, correction |-> <<>>, reached |-> FALSE]
    ELSE IF gps_target_reached(gps_data, target)
    THEN [nav |-> FALSE, pid |-> pid,
          motor_calls |-> <<motors_stop_all>>,
          bt_sent |-> <<"Objetivo alcanzado">>,
          pid_entry |-> <<>>, correction |-> <<>>, reached |-> TRUE]
    ELSE SteerFrom(nav, pid_set_setpoint(pid, gps_bearing_to_target(gps_data, target)),
                   heading, now)

\* lines 178-200: the report sent every 20th iteration
StatusReport(counter, gps_data, target) ==
    IF counter + 1 >= 20
    THEN IF gps_has_target(target) /\ gps_data.fix_valid
         THEN <<"NAV">> ELSE <<"STATUS">>
    ELSE <<>>

\* inputs of one iteration
RawSamples == {<<0, 1>>, <<-1, -1>>}

Sentence(lat, lng, quality, sats) ==
    <<[latitude |-> lat, longitude |-> lng, fix_quality |-> quality,
       satellites |-> sats]>>

Sentences ==
    {NoSentence,
     Sentence(PosA[1], PosA[2], 1, 6),
     Sentence(PosB[1], PosB[2], 1, 6),
     Sentence(PosA[1], PosA[2], 0, 3)}

LineEast == <<"0", ",", "0", ".", "0", "0", "0", "1">>
LineNorthEast ==
    <<"0", ".", "0", "0", "0", "1", ",", "0", ".", "0", "0", "0", "1">>
LineNoComma == <<"G", "O">>

RxStreams ==
    {<<>>} \cup {Append(l, "\n") : l \in {STOP, LineEast, LineNorthEast}}
           \cup {LineNoComma}

\* time a complete line takes to arrive, and time the replies take to send
\* (microseconds)
ArrivalDelays == {50000}
SendDelays == {50000}

Init ==
    /\ clock \in {<<65535, 65536 - 50000>>}
    /\ filtered_heading = R(0)
    /\ current_gps_data = GpsZero
    /\ target_data = TargetZero
    /\ heading_pid = pid_init(PidZero, KP_DIR, KI_DIR, KD_DIR, R(-50), R(50), clock)
    /\ navigation_active = FALSE
    /\ loop_counter = 0
    /\ motors = motors_init
    /\ tick = [line |-> <<>>, accepted |-> FALSE, fix_valid |-> FALSE,
               heading |-> R(0), nav_before |-> FALSE, nav_after_cmd |-> FALSE,
               pid_before |-> heading_pid, motors_before |-> motors_init,
               motor_calls |-> <<>>, bt_sent |-> <<>>, pid_entry |-> <<>>,
               correction |-> <<>>, reached |-> FALSE,
               since_stop |-> FALSE, since_arrival |-> FALSE, arrivals |-> 0,
               reset_pending |-> FALSE, first_after_reset |-> FALSE]
    /\ ticks = 0
    /\ samples = 0
    /\ test_pid = PidZero
    /\ last_call = [op |-> "none", before |-> PidZero, now |-> clock,
                    input |-> R(0), args |-> <<>>, ret |-> <<>>,
                    prev_op |-> "none", prev_now |-> clock,
                    prev_input |-> R(0), prev_ret |-> <<>>]
    /\ calls = 0
    /\ probe = [op |-> "none", args |-> <<>>, before |-> <<>>, ret |-> <<>>,
                streak |-> 0]
    /\ reader = [pc |-> "sensors", buffer |-> <<>>, waited |-> 0,
                 received |-> FALSE, ret |-> <<>>, polls |-> 0]

\* The loop body, lines 116-203, in four steps.  The last one gathers the
\* values of the program variables after the iteration and a record of what
\* it received and emitted; the fields since_stop, since_arrival, arrivals,
\* reset_pending and first_after_reset of that record carry history over
\* from the record prev of the iteration before.
LoopEnd(pid, active, counter, motor, prev, heading, gps_data, line, t_nav, cmd, nav, accepted) ==
    [filtered_heading |-> heading,
     current_gps_data |-> gps_data,
     target_data |-> cmd.target,
     heading_pid |-> nav.pid,
     navigation_active |-> nav.nav,
     loop_counter |-> IF counter + 1 >= 20 THEN 0 ELSE counter + 1,
     motors |-> IF cmd.motor_calls \o nav.motor_calls = <<>> THEN motor
                ELSE (cmd.motor_calls \o nav.motor_calls)[
                         Len(cmd.motor_calls \o nav.motor_calls)],
     clock |-> U32Add(t_nav, LOOP_INTERVAL_MS * 1000),
     tick |-> [line |-> line,
               accepted |-> accepted,
               fix_valid |-> gps_data.fix_valid,
               heading |-> heading,
               nav_before |-> active,
               nav_after_cmd |-> cmd.nav,
               pid_before |-> pid,
               motors_before |-> motor,
               motor_calls |-> cmd.motor_calls \o nav.motor_calls,
               bt_sent |-> cmd.bt_sent \o nav.bt_sent
                           \o StatusReport(counter, gps_data, cmd.target),
               pid_entry |-> nav.pid_entry,
               correction |-> nav.correction,
               reached |-> nav.reached,
               since_stop |-> IF line = STOP THEN TRUE
                              ELSE IF accepted THEN FALSE
                              ELSE prev.since_stop,
               since_arrival |-> IF nav.reached THEN TRUE
                                 ELSE IF accepted THEN FALSE
                                 ELSE prev.since_arrival,
               arrivals |-> (IF accepted THEN 0 ELSE prev.arrivals)
                            + (IF nav.reached THEN 1 ELSE 0),
               reset_pending |-> (accepted \/ prev.reset_pending)
                                 /\ nav.pid_entry = <<>>,
               first_after_reset |-> (accepted \/ prev.reset_pending)
                                     /\ nav.pid_entry # <<>>]]

\* lines 146-176, then the rest
LoopNavigate(pid, active, counter, motor, prev, heading, gps_data, line, t_nav, cmd) ==
    LoopEnd(pid, active, counter, motor, prev, heading, gps_data, line, t_nav,
            cmd,
            NavigationControl(cmd.nav, gps_data, cmd.target, cmd.pid,
                              heading, t_nav),
            cmd.bt_sent = <<"Objetivo establecido">>)

\* lines 124-144, then the rest
LoopCommand(target, pid, active, counter, motor, prev, heading, gps_data, line, t_read, send) ==
    LoopNavigate(pid, active, counter, motor, prev, heading, gps_data, line,
                 IF Len(line) > 0 THEN U32Add(t_read, send) ELSE t_read,
                 ProcessCommand(line, active, target, pid, t_read))

\* lines 118-123, then the rest
LoopIteration(now, filtered, gps_before, target, pid, active, counter, motor, prev, raw, sentence, rx, arrival, send) ==
    LoopCommand(target, pid, active, counter, motor, prev,
                magnetometer_get_filtered_heading(filtered, raw),
                gps_update(gps_before, sentence),
                bluetooth_read_line(rx, BT_BUFFER_SIZE),
                U32Add(now, IF LineEnded(rx, 1, 0, BT_BUFFER_SIZE)
                            THEN arrival ELSE BT_TIMEOUT_MS * 1000),
                send)

Tick(raw, sentence, rx, arrival, send) ==
    /\ ticks < MaxTicks
    /\ raw # ReadFailed => samples < MaxSamples
    /\ \E r \in {LoopIteration(clock, filtered_heading, current_gps_data,
                               target_data, heading_pid, navigation_active,
                               loop_counter, motors, tick,
                               raw, sentence, rx, arrival, send)} :
        /\ filtered_heading' = r.filtered_heading
        /\ current_gps_data' = r.current_gps_data
        /\ target_data' = r.target_data
        /\ heading_pid' = r.heading_pid
        /\ navigation_active' = r.navigation_active
        /\ loop_counter' = r.loop_counter
        /\ motors' = r.motors
        /\ tick' = r.tick
        /\ clock' = r.clock
    /\ ticks' = ticks + 1
    /\ samples' = IF raw # ReadFailed THEN samples + 1 ELSE samples
    /\ UNCHANGED <<unitVars, probe, reader>>

LoopStep ==
    \E raw \in RawSamples \cup {ReadFailed}, sentence \in Sentences,
       rx \in RxStreams, arrival \in ArrivalDelays, send \in SendDelays :
        Tick(raw, sentence, rx, arrival, send)

Next == LoopStep

Spec == Init /\ [][Next]_vars

(***************************************************************************)
(* pid.c driven call by call: any sequence of pid_* calls on one           *)
(* controller, with the counter advancing by `elapsed` before each call    *)
(***************************************************************************)
Gains ==
    {<<KP_DIR, KI_DIR, KD_DIR>>, <<KP_DIR, R(0), KD_DIR>>,
     <<KP_DIR, RNeg(KI_DIR), KD_DIR>>}
Limits == {<<R(-50), R(50)>>, <<R(-100), R(100)>>}
Setpoints == {R(0), R(90)}
Inputs == {R(0), R(10), R(100)}
Elapsed == {0, 50000}

\* what the caller of a pid_* function gets back: nothing from the void
\* functions, the returned double from pid_compute
Returned(op, value) == IF op = "pid_compute" THEN <<value>> ELSE <<>>

Call(op, elapsed, input, args, after, value) ==
    /\ calls < MaxCalls
    /\ clock' = U32Add(clock, elapsed)
    /\ test_pid' = after
    /\ last_call' = [op |-> op, before |-> test_pid, now |-> clock',
                     input |-> input, args |-> args,
                     ret |-> Returned(op, value),
                     prev_op |-> last_call.op, prev_now |-> last_call.now,
                     prev_input |-> last_call.input,
                     prev_ret |-> last_call.ret]
    /\ calls' = calls + 1
    /\ UNCHANGED <<loopVars, probe, reader>>

PidInit(elapsed, g, l) ==
    Call("pid_init", elapsed, R(0), <<g, l>>,
         pid_init(test_pid, g[1], g[2], g[3], l[1], l[2], U32Add(clock, elapsed)),
         R(0))

PidSetSetpoint(elapsed, setpoint) ==
    Call("pid_set_setpoint", elapsed, setpoint, <<>>,
         pid_set_setpoint(test_pid, setpoint), R(0))

PidCompute(elapsed, input) ==
    \E r \in {pid_compute(test_pid, input, U32Add(clock, elapsed))} :
        Call("pid_compute", elapsed, input, <<>>, r.pid, r.out)

PidReset(elapsed) ==
    Call("pid_reset", elapsed, R(0), <<>>,
         pid_reset(test_pid, U32Add(clock, elapsed)), R(0))

PidTune(elapsed, g) ==
    Call("pid_tune", elapsed, R(0), <<g>>,
         pid_tune(test_pid, g[1], g[2], g[3], U32Add(clock, elapsed)), R(0))

PidSetOutputLimits(elapsed, l) ==
    Call("pid_set_output_limits", elapsed, R(0), <<l>>,
         pid_set_output_limits(test_pid, l[1], l[2]), R(0))

NextPid ==
    \E elapsed \in Elapsed :
        \/ \E g \in Gains, l \in Limits : PidInit(elapsed, g, l)
        \/ \E setpoint \in Setpoints : PidSetSetpoint(elapsed, setpoint)
        \/ \E input \in Inputs : PidCompute(elapsed, input)
        \/ PidReset(elapsed)
        \/ \E g \in Gains : PidTune(elapsed, g)
        \/ \E l \in Limits : PidSetOutputLimits(elapsed, l)

SpecPid == Init /\ [][NextPid]_vars

\* pid.c with output limits that leave zero outside
OffsetLimits == {<<R(10), R(50)>>, <<R(-50), R(-10)>>}

NextPidLimits ==
    \E elapsed \in Elapsed :
        \/ \E l \in OffsetLimits : PidInit(elapsed, <<KP_DIR, KI_DIR, KD_DIR>>, l)
        \/ \E setpoint \in Setpoints : PidSetSetpoint(elapsed, setpoint)
        \/ \E input \in Inputs : PidCompute(elapsed, input)

SpecPidLimits == Init /\ [][NextPidLimits]_vars

(***************************************************************************)
(* pid_heading_error and the heading filter, each driven on its own        *)
(***************************************************************************)
MaxReads == 3

\* a function call and what it returned; streak counts the consecutive failed
\* magnetometer reads up to 2
Probe(op, args, prior, ret, streak) ==
    [op |-> op, args |-> args, before |-> prior, ret |-> ret, streak |-> streak]

Angles ==
    {R(-720), R(-540), R(-350), R(-190), R(-180), R(-10), R(0), R(10),
     R(170), R(180), R(190), R(350), R(360), R(540), R(725), <<3599, 10>>}

HeadingError(setpoint, input) ==
    /\ probe' = Probe("pid_heading_error", <<setpoint, input>>, <<>>,
                      <<pid_heading_error(setpoint, input)>>, 0)
    /\ UNCHANGED <<clock, loopVars, unitVars, reader>>

NextHeadingError == \E setpoint \in Angles, input \in Angles : HeadingError(setpoint, input)

SpecHeadingError == Init /\ [][NextHeadingError]_vars

MagSamples == RawSamples \cup {<<-10, 29>>, <<-10000, -12>>}

MagRead(raw) ==
    /\ raw # ReadFailed => samples < MaxReads
    /\ filtered_heading' = magnetometer_get_filtered_heading(filtered_heading, raw)
    /\ samples' = IF raw # ReadFailed THEN samples + 1 ELSE samples
    /\ probe' = Probe("magnetometer_get_filtered_heading", <<raw>>,
                      <<filtered_heading>>, <<filtered_heading'>>,
                      IF raw # ReadFailed THEN 0
                      ELSE IF probe.streak >= 2 THEN 2 ELSE probe.streak + 1)
    /\ UNCHANGED <<clock, current_gps_data, target_data, heading_pid,
                   navigation_active, loop_counter, motors, tick, ticks,
                   unitVars, reader>>

NextMag == \E raw \in MagSamples \cup {ReadFailed} : MagRead(raw)

SpecMag == Init /\ [][NextMag]_vars

(***************************************************************************)
(* gps.c and the command handling, each driven on its own                  *)
(***************************************************************************)
GpsSentences == Sentences \cup {Sentence(PosC[1], PosC[2], 1, 6)}

Targets == {TgtEast, TgtNorthEast, TgtZero}

GpsUpdate(sentence) ==
    /\ current_gps_data' = gps_update(current_gps_data, sentence)
    /\ UNCHANGED <<clock, filtered_heading, target_data, heading_pid,
                   navigation_active, loop_counter, motors, tick, ticks,
                   samples, unitVars, probe, reader>>

GpsSetTarget(t) ==
    /\ target_data' = gps_set_target(target_data, t[1], t[2])
    /\ UNCHANGED <<clock, filtered_heading, current_gps_data, heading_pid,
                   navigation_active, loop_counter, motors, tick, ticks,
                   samples, unitVars, probe, reader>>

GpsTargetReached ==
    /\ probe' = Probe("gps_target_reached", <<>>,
                      <<current_gps_data, target_data>>,
                      <<gps_target_reached(current_gps_data, target_data)>>, 0)
    /\ UNCHANGED <<clock, loopVars, unitVars, reader>>

NextGps ==
    \/ \E sentence \in GpsSentences : GpsUpdate(sentence)
    \/ \E t \in Targets : GpsSetTarget(t)
    \/ GpsTargetReached

SpecGps == Init /\ [][NextGps]_vars

\* command lines: the accepted ones, and lines with a non-numeric field, an
\* empty field, a value out of range, a value at the end of the range
LineLetters == <<"x", ",", "y">>
LineComma == <<",">>
LineLatHigh == <<"9", "1", ",", "0">>
LineLngHigh == <<"0", ",", "1", "8", "1">>
LineLngLow == <<"0", ",", "-", "1", "8", "0", ".", "5">>
LineCorner == <<"-", "9", "0", ",", "1", "8", "0">>

CommandLines ==
    {STOP, LineEast, LineNorthEast, LineNoComma, LineLetters, LineComma,
     LineLatHigh, LineLngHigh, LineLngLow, LineCorner}

\* lines 123-144 for the bytes rx
CommandLine(rx) ==
    \E line \in {bluetooth_read_line(rx, BT_BUFFER_SIZE)} :
    \E cmd \in {ProcessCommand(line, navigation_active, target_data, heading_pid, clock)} :
        /\ navigation_active' = cmd.nav
        /\ target_data' = cmd.target
        /\ heading_pid' = cmd.pid
        /\ motors' = IF cmd.motor_calls = <<>> THEN motors
                     ELSE cmd.motor_calls[Len(cmd.motor_calls)]
        /\ probe' = Probe("command", <<line>>,
                          <<navigation_active, target_data>>, cmd.bt_sent, 0)
        /\ UNCHANGED <<clock, filtered_heading, current_gps_data, loop_counter,
                       tick, ticks, samples, unitVars, reader>>

NextCmd == \E l \in CommandLines : CommandLine(Append(l, "\n"))

SpecCmd == Init /\ [][NextCmd]_vars

\* bluetooth_parse_coordinates on the commands bluetooth_read_line can leave
\* in the 128-byte buffer: a field of n characters, a comma, a field of m
\* characters, each field a zero followed by blanks
FieldLengths == (0..12) \cup {30, 31, 32, 33, 94, 95, 125, 126}

Field(n) == [i \in 1..n |-> IF i = 1 THEN "0" ELSE " "]

PaddedLine(n, m) == Field(n) \o <<",">> \o Field(m)

\* sizeof(lng_str)
LNG_STR_SIZE == 32

\* lines 92-98 for a comma at index comma: the bytes written to lat_str by
\* strncpy and the terminator, and to lng_str by strcpy, terminator included
SplitWrites(command, comma) ==
    IF comma - 1 >= LAT_STR_SIZE
    THEN [lat_str |-> 0, lng_str |-> 0]
    ELSE [lat_str |-> comma, lng_str |-> Len(command) - comma + 1]

ParseWrites(command) ==
    IF StrChrComma(command, 1) = 0
    THEN [lat_str |-> 0, lng_str |-> 0]
    ELSE SplitWrites(command, StrChrComma(command, 1))

\* what the caller can see of a call: the result of the function when every
\* write stays inside its array; after a write past the end of lng_str the
\* behaviour is undefined: the result computed from the bytes, either return
\* value with lat and lng overwritten, or no return at all (<<>>)
ParseOutcomes(command) ==
    IF ParseWrites(command).lng_str <= LNG_STR_SIZE
    THEN {<<bluetooth_parse_coordinates(command)>>}
    ELSE {<<bluetooth_parse_coordinates(command)>>,
          <<[ok |-> TRUE, lat |-> R(0), lng |-> R(0)]>>,
          <<[ok |-> FALSE, lat |-> R(0), lng |-> R(0)]>>,
          <<>>}

\* line 134 for a command of at most max_length - 1 characters, the most
\* bluetooth_read_line stores (bluetooth.c line 60)
ParseLine(command) ==
    /\ Len(command) <= BT_BUFFER_SIZE - 1
    /\ \E outcome \in ParseOutcomes(command) :
        probe' = Probe("bluetooth_parse_coordinates", <<command>>,
                       <<ParseWrites(command)>>, outcome, 0)
    /\ UNCHANGED <<clock, loopVars, unitVars, reader>>

NextParse ==
    \E n \in FieldLengths, m \in FieldLengths : ParseLine(PaddedLine(n, m))

SpecParse == Init /\ [][NextParse]_vars

(***************************************************************************)
(* One loop iteration step by step: bluetooth_read_line polls the UART     *)
(* while the clock advances                                                *)
(***************************************************************************)
MaxPolls == 2

\* bytes the UART can deliver and advances of the clock (milliseconds)
PollBytes == {"1", "\n", "\t"}
ClockSteps == {50}

\* a timeout that is never reached
time_reached_Never(waited) == FALSE

\* time_reached(timeout), waited milliseconds after make_timeout_time_ms
time_reached(waited) == waited >= BT_TIMEOUT_MS

\* lines 75-80 and line 67: index is returned, 0 for an empty buffer
ReadLineReturn(r) == [r EXCEPT !.pc = "command", !.ret = <<Len(r.buffer)>>]

\* lines 118-120, then lines 55-58 of bluetooth_read_line
PollSensors ==
    /\ reader.pc = "sensors"
    /\ filtered_heading' = magnetometer_get_filtered_heading(filtered_heading, ReadFailed)
    /\ current_gps_data' = gps_update(current_gps_data, NoSentence)
    /\ reader' = [reader EXCEPT !.pc = "test", !.buffer = <<>>, !.waited = 0,
                                !.received = FALSE, !.ret = <<>>]
    /\ UNCHANGED <<clock, target_data, heading_pid, navigation_active,
                   loop_counter, motors, tick, ticks, samples, unitVars, probe>>

\* line 60: the condition of the while loop
ReadLineTest ==
    /\ reader.pc = "test"
    /\ reader' = IF Len(reader.buffer) < BT_BUFFER_SIZE - 1
                    /\ ~time_reached(reader.waited)
                 THEN [reader EXCEPT !.pc = "body"]
                 ELSE ReadLineReturn(reader)
    /\ UNCHANGED <<clock, loopVars, unitVars, probe>>

\* lines 61-72 when the UART has the byte c
ReadLineByte(c) ==
    /\ reader.pc = "body"
    /\ reader' = IF IsNewline(c)
                 THEN IF Len(reader.buffer) > 0
                      THEN ReadLineReturn([reader EXCEPT !.received = TRUE])
                      ELSE [reader EXCEPT !.pc = "test", !.received = TRUE]
                 ELSE IF IsPrintable(c)
                 THEN [reader EXCEPT !.pc = "test", !.received = TRUE,
                                     !.buffer = Append(reader.buffer, c)]
                 ELSE [reader EXCEPT !.pc = "test", !.received = TRUE]
    /\ UNCHANGED <<clock, loopVars, unitVars, probe>>

\* line 61 when the UART has nothing to read
ReadLineIdle ==
    /\ reader.pc = "body"
    /\ reader' = [reader EXCEPT !.pc = "test"]
    /\ UNCHANGED <<clock, loopVars, unitVars, probe>>

\* lines 124-200: the command, the navigation control and the status report
PollFinish(send) ==
    /\ reader.pc = "command"
    /\ clock' = IF Len(reader.buffer) > 0 THEN U32Add(clock, send) ELSE clock
    /\ \E cmd \in {ProcessCommand(reader.buffer, navigation_active, target_data, heading_pid, clock)} :
       \E nav \in {NavigationControl(cmd.nav, current_gps_data, cmd.target, cmd.pid, filtered_heading, clock')} :
        /\ target_data' = cmd.target
        /\ heading_pid' = nav.pid
        /\ navigation_active' = nav.nav
        /\ motors' = IF cmd.motor_calls \o nav.motor_calls = <<>> THEN motors
                     ELSE (cmd.motor_calls \o nav.motor_calls)[
                              Len(cmd.motor_calls \o nav.motor_calls)]
    /\ loop_counter' = IF loop_counter + 1 >= 20 THEN 0 ELSE loop_counter + 1
    /\ reader' = [reader EXCEPT !.pc = "sleep"]
    /\ UNCHANGED <<filtered_heading, current_gps_data, tick, ticks, samples,
                   unitVars, probe>>

\* line 202: sleep_ms(LOOP_INTERVAL_MS), then the next iteration
PollSleep ==
    /\ reader.pc = "sleep"
    /\ reader.polls < MaxPolls
    /\ clock' = U32Add(clock, LOOP_INTERVAL_MS * 1000)
    /\ reader' = [reader EXCEPT !.pc = "sensors", !.polls = reader.polls + 1]
    /\ UNCHANGED <<loopVars, unitVars, probe>>

\* the hardware timer advances while bluetooth_read_line polls; waited counts
\* the time since make_timeout_time_ms up to the timeout
ClockAdvance(step) ==
    /\ reader.pc \in {"test", "body"}
    /\ reader.waited < BT_TIMEOUT_MS
    /\ \E w \in {IF reader.waited + step > BT_TIMEOUT_MS THEN BT_TIMEOUT_MS
                 ELSE reader.waited + step} :
        /\ reader' = [reader EXCEPT !.waited = w]
        /\ clock' = U32Add(clock, (w - reader.waited) * 1000)
    /\ UNCHANGED <<loopVars, unitVars, probe>>

PollProgram ==
    \/ PollSensors
    \/ ReadLineTest
    \/ \E c \in PollBytes : ReadLineByte(c)
    \/ ReadLineIdle
    \/ \E send \in SendDelays : PollFinish(send)
    \/ PollSleep

PollClock == \E step \in ClockSteps : ClockAdvance(step)

NextPoll == PollProgram \/ PollClock

\* the program keeps running and the clock keeps advancing
SpecPoll ==
    Init /\ [][NextPoll]_vars /\ WF_vars(PollProgram) /\ WF_vars(PollClock)

(***************************************************************************)
(* Properties                                                              *)
(***************************************************************************)
IsForward(call) ==
    call.fn = "motors_set_both_motors"
    /\ (call.dir_a = "FORWARD" \/ call.dir_b = "FORWARD")

HasForward(made) == \E i \in 1..Len(made) : IsForward(made[i])

HasStop(made) == \E i \in 1..Len(made) : made[i] = motors_stop_all

Count(msg, sent) == Cardinality({i \in 1..Len(sent) : sent[i] = msg})

ClampInt(v, lo, hi) == IF v < lo THEN lo ELSE IF v > hi THEN hi ELSE v

ClampR(v, lo, hi) == IF RLt(v, lo) THEN lo ELSE IF RGt(v, hi) THEN hi ELSE v

\* C1: an iteration whose command line is exactly STOP leaves navigation
\* inactive and issues the stop command to the motors in that iteration;
\* from then on, up to the iteration that accepts a target command, no
\* iteration issues a forward command and navigation stays inactive.
C1_StopHalts ==
    /\ tick.line = STOP =>
           (~navigation_active /\ HasStop(tick.motor_calls)
            /\ motors = motors_stop_all)
    /\ tick.since_stop =>
           (~navigation_active /\ ~HasForward(tick.motor_calls))

\* STOP arrives while the robot is driving forward with a valid fix
C1_Witness ==
    /\ tick.line = STOP
    /\ tick.nav_before
    /\ tick.fix_valid
    /\ IsForward(tick.motors_before)
    /\ ~gps_target_reached(current_gps_data, target_data)
    /\ motors = motors_stop_all

\* C2: after an iteration that processed STOP or detected arrival, and until
\* the next accepted target command, gps_has_target() is false.
C2_TargetCleared ==
    (tick.since_stop \/ tick.since_arrival) => ~gps_has_target(target_data)

\* C3: an iteration that accepts a target command sets navigation_active,
\* stores the coordinates of the line as the target, and resets the heading
\* PID: the first pid_compute after it starts from integral_sum = 0 and
\* last_input = 0.
C3_TargetAccepted ==
    /\ tick.accepted =>
           /\ tick.nav_after_cmd
           /\ gps_has_target(target_data)
           /\ tick.line = LineEast =>
                  <<target_data.latitude, target_data.longitude>> = TgtEast
           /\ tick.line = LineNorthEast =>
                  <<target_data.latitude, target_data.longitude>> = TgtNorthEast
    /\ tick.first_after_reset =>
           /\ tick.pid_entry[1].integral_sum = R(0)
           /\ tick.pid_entry[1].last_input = R(0)

\* a target is accepted while the controller holds a non-zero integral and
\* last input from the navigation before, and pid_compute runs after it
C3_Witness ==
    /\ tick.accepted
    /\ tick.first_after_reset
    /\ tick.pid_before.integral_sum # R(0)
    /\ tick.pid_before.last_input # R(0)
    /\ tick.line = LineNorthEast

\* C4: while navigating, an iteration without a command whose GPS data has
\* fix_valid = FALSE issues no motor command and changes neither the heading
\* PID nor navigation_active; the motor command in effect is the one from
\* before.
C4_HoldOnNoFix ==
    (tick.nav_before /\ ~tick.fix_valid /\ tick.line = <<>>) =>
        /\ tick.motor_calls = <<>>
        /\ heading_pid = tick.pid_before
        /\ navigation_active
        /\ motors = tick.motors_before

\* the fix is lost while the robot drives forward
C4_Witness ==
    /\ tick.nav_before
    /\ ~tick.fix_valid
    /\ tick.line = <<>>
    /\ IsForward(motors)
    /\ heading_pid.integral_sum # R(0)

\* C5: while navigating with a valid fix, an iteration in which the distance
\* to the target is below 2 m detects arrival: it clears navigation_active,
\* stops the motors and sends the arrival notice once.  At most one notice
\* is sent per accepted target command, and after arrival no forward command
\* is issued until a target command is accepted.
C5_ArrivalOnce ==
    /\ (tick.nav_after_cmd /\ tick.fix_valid /\ gps_has_target(target_data)
        /\ RLt(gps_distance_to_target(current_gps_data, target_data), R(2)))
           => tick.reached
    /\ tick.reached =>
           (~navigation_active /\ HasStop(tick.motor_calls)
            /\ motors = motors_stop_all)
    /\ Count("Objetivo alcanzado", tick.bt_sent) = IF tick.reached THEN 1 ELSE 0
    /\ tick.arrivals <= 1
    /\ tick.since_arrival =>
           (~navigation_active /\ ~HasForward(tick.motor_calls))

\* an iteration after the arrival, still within 2 m with a valid fix, that
\* sends no second notice
C5_Witness ==
    /\ tick.since_arrival
    /\ ~tick.reached
    /\ tick.fix_valid
    /\ gps_target_reached(current_gps_data, target_data)
    /\ tick.arrivals = 1
    /\ tick.line = <<>>

C7_SkipLeavesState ==
    (last_call.op = "pid_compute" /\ last_call.before.initialized
     /\ last_call.now = last_call.before.last_time)
        => test_pid = last_call.before

\* such a call, with an input and an error that an update would have stored
C7_Witness ==
    /\ last_call.op = "pid_compute"
    /\ last_call.before.initialized
    /\ last_call.now = last_call.before.last_time
    /\ last_call.input # last_call.before.last_input
    /\ last_call.input # last_call.before.setpoint

\* C8: the second of two pid_compute calls at the same counter value returns
\* what the first returned and leaves integral_sum and last_input as the
\* first left them.
C8_SameOutputTwice ==
    (last_call.op = "pid_compute" /\ last_call.prev_op = "pid_compute"
     /\ last_call.before.initialized
     /\ last_call.now = last_call.prev_now)
        => /\ last_call.ret = last_call.prev_ret
           /\ test_pid.integral_sum = last_call.before.integral_sum
           /\ test_pid.last_input = last_call.before.last_input

\* what a successful call hands back to its caller: a double from
\* pid_compute, nothing from the other functions
ReturnedBySuccess(op, ret) ==
    IF op = "pid_compute" THEN Len(ret) = 1 ELSE ret = <<>>

\* C9: on a controller that was never initialized, pid_set_setpoint,
\* pid_compute, pid_reset, pid_tune and pid_set_output_limits leave every
\* field unchanged and hand the caller something a successful call does not.
C9_UninitializedReported ==
    (last_call.op \notin {"none", "pid_init"} /\ ~last_call.before.initialized)
        => /\ test_pid = last_call.before
           /\ ~ReturnedBySuccess(last_call.op, last_call.ret)

\* C10: with ki = 0 and dt > 0, pid_compute returns
\* clamp(kp*(setpoint - input) - kd*(input - last_input)/dt, output_min,
\* output_max) and stores the input and the counter value.
C10_Expected ==
    ClampR(RSub(RMul(last_call.before.kp,
                     RSub(last_call.before.setpoint, last_call.input)),
                RDiv(RMul(last_call.before.kd,
                          RSub(last_call.input, last_call.before.last_input)),
                     RNorm(U32Val(U32Sub(last_call.now,
                                         last_call.before.last_time)),
                           1000000))),
           last_call.before.output_min, last_call.before.output_max)

C10_PDOutput ==
    (last_call.op = "pid_compute" /\ last_call.before.initialized
     /\ last_call.before.ki = R(0)
     /\ last_call.now # last_call.before.last_time)
        => /\ last_call.ret = <<C10_Expected>>
           /\ test_pid.last_input = last_call.input
           /\ test_pid.last_time = last_call.now

\* such a call with a non-zero error, a non-zero derivative and a result
\* strictly inside the limits
C10_Witness ==
    /\ last_call.op = "pid_compute"
    /\ last_call.before.initialized
    /\ last_call.before.ki = R(0)
    /\ last_call.now # last_call.before.last_time
    /\ last_call.input # last_call.before.last_input
    /\ last_call.input # last_call.before.setpoint
    /\ RLt(last_call.before.output_min, last_call.ret[1])
    /\ RLt(last_call.ret[1], last_call.before.output_max)

\* The quantities of the last pid_compute call, from the controller as it
\* was before the call and the arguments of the call.
CallDt == RNorm(U32Val(U32Sub(last_call.now, last_call.before.last_time)), 1000000)

CallError == RSub(last_call.before.setpoint, last_call.input)

CallProportional == RMul(last_call.before.kp, CallError)

CallDerivative == RDiv(RMul(last_call.before.kd, RSub(last_call.input, last_call.before.last_input)), CallDt)

CallRaw == RSub(RAdd(CallProportional, RMul(last_call.before.ki, RAdd(last_call.before.integral_sum, RMul(CallError, CallDt)))), CallDerivative)

\* the output that the stored integral reproduces after the call
CallRebuilt == RSub(RAdd(CallProportional, RMul(test_pid.ki, test_pid.integral_sum)), CallDerivative)

IsTimedCompute ==
    /\ last_call.op = "pid_compute"
    /\ last_call.before.initialized
    /\ last_call.now # last_call.before.last_time

\* C11: for an initialized controller with ki # 0 and dt > 0, whenever
\* pid_compute clamps the raw output to output_max or output_min, the stored
\* integral_sum satisfies kp*error + ki*integral_sum - derivative = the limit
\* that was hit.
C11_BackSolved ==
    (IsTimedCompute /\ last_call.before.ki # R(0)) =>
        /\ RGt(CallRaw, last_call.before.output_max) =>
               CallRebuilt = last_call.before.output_max
        /\ RLt(CallRaw, last_call.before.output_min) =>
               CallRebuilt = last_call.before.output_min

\* C11 for a positive integral gain: the back-solved integral reproduces the
\* limit that was hit.
C11_BackSolvedPositiveKi ==
    (IsTimedCompute /\ RGt(last_call.before.ki, R(0))) =>
        /\ RGt(CallRaw, last_call.before.output_max) =>
               (CallRebuilt = last_call.before.output_max
                /\ last_call.ret = <<last_call.before.output_max>>)
        /\ RLt(CallRaw, last_call.before.output_min) =>
               (CallRebuilt = last_call.before.output_min
                /\ last_call.ret = <<last_call.before.output_min>>)

\* C12: for an initialized controller with ki > 0, when the pid_compute call
\* before this one returned a saturation bound under a non-zero error, a
\* pid_compute call with dt > 0 and input = setpoint returns a value strictly
\* inside the bound that was hit.
C12_RecoversInOneCall ==
    (IsTimedCompute /\ last_call.prev_op = "pid_compute"
     /\ RGt(last_call.before.ki, R(0))
     /\ last_call.input = last_call.before.setpoint
     /\ last_call.prev_input # last_call.before.setpoint) =>
        /\ last_call.prev_ret = <<last_call.before.output_max>> =>
               RLt(last_call.ret[1], last_call.before.output_max)
        /\ last_call.prev_ret = <<last_call.before.output_min>> =>
               RGt(last_call.ret[1], last_call.before.output_min)

\* C13: for an initialized controller with ki # 0, in every reachable state
\* output_min <= ki*integral_sum <= output_max.
C13_IntegralWithinLimits ==
    (test_pid.initialized /\ test_pid.ki # R(0)) =>
        /\ RLe(test_pid.output_min, RMul(test_pid.ki, test_pid.integral_sum))
        /\ RLe(RMul(test_pid.ki, test_pid.integral_sum), test_pid.output_max)

\* C14: pid_tune on an initialized controller stores the three gains given
\* and resets: integral_sum = 0, last_input = 0, last_time = the counter
\* value of the call, with setpoint, output_min and output_max unchanged;
\* pid_reset does the same and leaves the gains unchanged as well.
C14_TuneResets ==
    /\ (last_call.op = "pid_tune" /\ last_call.before.initialized) =>
           test_pid = [last_call.before EXCEPT
                           !.kp = last_call.args[1][1],
                           !.ki = last_call.args[1][2],
                           !.kd = last_call.args[1][3],
                           !.integral_sum = R(0),
                           !.last_input = R(0),
                           !.last_time = last_call.now]
    /\ (last_call.op = "pid_reset" /\ last_call.before.initialized) =>
           test_pid = [last_call.before EXCEPT
                           !.integral_sum = R(0),
                           !.last_input = R(0),
                           !.last_time = last_call.now]

\* pid_tune changes the integral gain of a controller that holds a non-zero
\* integral, a non-zero last input and a non-zero setpoint, at a later
\* counter value
C14_Witness ==
    /\ last_call.op = "pid_tune"
    /\ last_call.before.initialized
    /\ last_call.before.integral_sum # R(0)
    /\ last_call.before.last_input # R(0)
    /\ last_call.before.setpoint # R(0)
    /\ last_call.before.ki # test_pid.ki
    /\ last_call.now # last_call.before.last_time

IsHeadingError == probe.op = "pid_heading_error"

\* C15: for all setpoint and input values, pid_heading_error(setpoint, input)
\* is in [-180, 180] and differs from setpoint - input by a multiple of 360;
\* pid_heading_error(a, b) = -pid_heading_error(b, a) unless the result is
\* 180 or -180; pid_heading_error(10, 350) = 20.
C15_HeadingError ==
    IsHeadingError =>
        /\ RLe(R(-180), probe.ret[1])
        /\ RLe(probe.ret[1], R(180))
        /\ RDiv(RSub(probe.ret[1], RSub(probe.args[1], probe.args[2])), R(360))[2] = 1
        /\ probe.ret[1] \notin {R(180), R(-180)} =>
               probe.ret[1] = RNeg(pid_heading_error(probe.args[2], probe.args[1]))
        /\ probe.args = <<R(10), R(350)>> => probe.ret[1] = R(20)

\* the call pid_heading_error(10, 350)
C15_Witness ==
    /\ IsHeadingError
    /\ probe.args = <<R(10), R(350)>>
    /\ probe.ret = <<R(20)>>

IsMagRead == probe.op = "magnetometer_get_filtered_heading"

InHeadingRange(h) == RLe(R(0), h) /\ RLt(h, R(360))

\* C16: every value returned by magnetometer_get_filtered_heading, and every
\* raw heading from magnetometer_calculate_heading that feeds it, is in
\* [0, 360).
C16_HeadingsInRange ==
    /\ InHeadingRange(filtered_heading)
    /\ IsMagRead => InHeadingRange(probe.ret[1])
    /\ (IsMagRead /\ probe.args[1] # ReadFailed) =>
           InHeadingRange(magnetometer_calculate_heading(probe.args[1][1], probe.args[1][2]))

\* distance between two headings of [0, 360) along the circle
ArcBetween(a, b) ==
    IF RLe(RSub(a, b), R(-180)) THEN RAdd(RSub(a, b), R(360))
    ELSE IF RGt(RSub(a, b), R(180)) THEN RSub(R(360), RSub(a, b))
    ELSE IF RLt(RSub(a, b), R(0)) THEN RNeg(RSub(a, b))
    ELSE RSub(a, b)

\* C17: one filter update moves the filtered heading by at most
\* ALPHA * 180 = 108 degrees along the circle.
C17_BoundedJump ==
    IsMagRead => RLe(ArcBetween(probe.ret[1], probe.before[1]), R(108))

\* C18: a failed magnetometer read returns the previous filtered heading and
\* leaves the stored filtered heading unchanged, also when failed reads
\* follow one another.
C18_FailedReadHolds ==
    (IsMagRead /\ probe.args[1] = ReadFailed) =>
        /\ probe.ret = probe.before
        /\ filtered_heading = probe.before[1]

\* the second of two failed reads in a row, after the filter has moved
C18_Witness ==
    /\ IsMagRead
    /\ probe.args[1] = ReadFailed
    /\ probe.streak = 2
    /\ samples >= 2
    /\ filtered_heading # R(0)

IsReachedCall ==
    /\ probe.op = "gps_target_reached"
    /\ probe.before[1].fix_valid
    /\ probe.before[2].target_set

\* the distance between the position and the target of the last
\* gps_target_reached call
ProbeDistance ==
    Haversine(<<probe.before[1].latitude, probe.before[1].longitude>>,
              <<probe.before[2].latitude, probe.before[2].longitude>>)

\* C19: with a valid fix and a target set, gps_target_reached() is true
\* exactly when the distance is below 2.0 metres; at a distance of exactly
\* 2.0 it is false.
C19_StrictArrival ==
    IsReachedCall =>
        /\ probe.ret[1] <=> RLt(ProbeDistance, R(2))
        /\ ProbeDistance = R(2) => ~probe.ret[1]

\* a call at a distance of exactly 2.0 metres
C19_Witness ==
    /\ IsReachedCall
    /\ ProbeDistance = R(2)
    /\ probe.ret = <<FALSE>>

\* a field that is a number: an optional sign, then digits with at most one
\* decimal point
IsNumber(s) ==
    /\ \E i \in 1..Len(s) : IsDigit(s[i])
    /\ \A i \in 1..Len(s) :
           IsDigit(s[i]) \/ s[i] = "." \/ (i = 1 /\ s[i] \in {"-", "+"})
    /\ Cardinality({i \in 1..Len(s) : s[i] = "."}) <= 1

FieldsOf(line) ==
    <<SubSeq(line, 1, StrChrComma(line, 1) - 1),
      SubSeq(line, StrChrComma(line, 1) + 1, Len(line))>>

\* <lat>,<lng> with two numbers, lat in [-90, 90] and lng in [-180, 180]
WellFormed(line) ==
    /\ StrChrComma(line, 1) # 0
    /\ IsNumber(FieldsOf(line)[1])
    /\ IsNumber(FieldsOf(line)[2])
    /\ RLe(R(-90), atof(FieldsOf(line)[1])) /\ RLe(atof(FieldsOf(line)[1]), R(90))
    /\ RLe(R(-180), atof(FieldsOf(line)[2])) /\ RLe(atof(FieldsOf(line)[2]), R(180))

\* C20: a command line other than STOP that is not of the form <lat>,<lng>
\* with two numbers in range sets no target, leaves the navigation state
\* unchanged and produces the invalid-format notice.
C20_RejectsMalformed ==
    (probe.op = "command" /\ probe.args[1] # STOP /\ ~WellFormed(probe.args[1])) =>
        /\ target_data = probe.before[2]
        /\ navigation_active = probe.before[1]
        /\ probe.ret = <<"Formato invalido">>

\* C21: every call of bluetooth_read_line returns, with 0 when nothing was
\* received before the timeout, whatever bytes arrive or fail to arrive, as
\* long as the clock advances; so every iteration of the loop reaches its
\* inter-tick sleep.
C21_PollReturns ==
    /\ [](reader.pc = "command" =>
              /\ reader.ret = <<Len(reader.buffer)>>
              /\ ~reader.received => reader.ret = <<0>>)
    /\ (reader.pc \in {"test", "body"}) ~> (reader.pc = "command")
    /\ (reader.pc = "sensors") ~> (reader.pc = "sleep")

\* a call that received nothing returns 0 at the timeout, in an iteration
\* after the first, and the iteration reaches its sleep
C21_Witness ==
    /\ reader.pc = "sleep"
    /\ reader.polls > 0
    /\ ~reader.received
    /\ reader.ret = <<0>>
    /\ reader.waited = BT_TIMEOUT_MS

\* C22: every value returned by pid_compute on an initialized controller
\* with output_min <= output_max lies within [output_min, output_max], for
\* every call sequence and clock value, skipped calls (dt <= 0) included.
C22_OutputWithinLimits ==
    (/\ last_call.op = "pid_compute"
     /\ last_call.before.initialized
     /\ RLe(last_call.before.output_min, last_call.before.output_max)) =>
        /\ RGe(last_call.ret[1], last_call.before.output_min)
        /\ RLe(last_call.ret[1], last_call.before.output_max)

\* C22 for the calls that are not skipped: the value computed is clamped
C22_ComputedWithinLimits ==
    (/\ last_call.op = "pid_compute"
     /\ last_call.before.initialized
     /\ RLe(last_call.before.output_min, last_call.before.output_max)
     /\ last_call.now # last_call.before.last_time) =>
        /\ RGe(last_call.ret[1], last_call.before.output_min)
        /\ RLe(last_call.ret[1], last_call.before.output_max)

RSign(r) == IF r[1] > 0 THEN 1 ELSE IF r[1] < 0 THEN -1 ELSE 0

\* C23: while navigating with a valid fix, the proportional error the
\* heading PID acts on has the sign of pid_heading_error(bearing, heading):
\* the correction follows the shorter arc across the 0/360 seam.
C23_ShorterArcError ==
    tick.pid_entry # <<>> =>
        RSign(RSub(tick.pid_entry[1].setpoint, tick.heading))
            = RSign(pid_heading_error(tick.pid_entry[1].setpoint, tick.heading))

\* C24: gps_target_reached() returns true only when a target has been set
\* and the current fix is valid; with no target set or with fix_valid false
\* it returns false.
C24_ReachedNeedsFixAndTarget ==
    probe.op = "gps_target_reached" =>
        (probe.ret[1] => (probe.before[1].fix_valid /\ probe.before[2].target_set))

\* C24, the part in parentheses: with no target set or no valid fix
\* gps_distance_to_target and gps_bearing_to_target return 0.0
C24_ZeroWithoutFixOrTarget ==
    (~current_gps_data.fix_valid \/ ~target_data.target_set) =>
        /\ gps_distance_to_target(current_gps_data, target_data) = R(0)
        /\ gps_bearing_to_target(current_gps_data, target_data) = R(0)

\* TRUE when the counter value of the last call is numerically below the
\* last_time the controller held: the counter has wrapped in between
CallWrapped ==
    \/ last_call.now[1] < last_call.before.last_time[1]
    \/ /\ last_call.now[1] = last_call.before.last_time[1]
       /\ last_call.now[2] < last_call.before.last_time[2]

\* the microseconds from last_time to the call: up to the wrap at 2^32 and
\* from there on when the counter has wrapped, the plain difference otherwise
CallElapsed ==
    IF CallWrapped
    THEN (Half - 1 - last_call.before.last_time[1]) * Half
         + (Half - last_call.before.last_time[2])
         + last_call.now[1] * Half + last_call.now[2]
    ELSE (last_call.now[1] - last_call.before.last_time[1]) * Half
         + (last_call.now[2] - last_call.before.last_time[2])

\* the value pid_compute returns for the elapsed time CallElapsed
CallExpected ==
    ClampR(RSub(RAdd(CallProportional,
                     RMul(last_call.before.ki,
                          RAdd(last_call.before.integral_sum,
                               RMul(CallError, RNorm(CallElapsed, 1000000))))),
                RDiv(RMul(last_call.before.kd,
                          RSub(last_call.input, last_call.before.last_input)),
                     RNorm(CallElapsed, 1000000))),
           last_call.before.output_min, last_call.before.output_max)

\* C25: the dt of pid_compute is the elapsed time modulo 2^32 microseconds:
\* when the counter has wrapped since last_time (current_time < last_time)
\* dt is strictly positive and the update is performed with it; the update
\* is skipped only when current_time = last_time.
C25_WrapDt ==
    (last_call.op = "pid_compute" /\ last_call.before.initialized) =>
        /\ last_call.now # last_call.before.last_time =>
               /\ CallElapsed > 0
               /\ CallDt = RNorm(CallElapsed, 1000000)
               /\ last_call.ret[1] = CallExpected
               /\ test_pid.last_input = last_call.input
               /\ test_pid.last_time = last_call.now
        /\ test_pid = last_call.before =>
               last_call.now = last_call.before.last_time

\* a call after the counter has wrapped, with an error to integrate and an
\* input that differs from the last one
C25_Witness ==
    /\ last_call.op = "pid_compute"
    /\ last_call.before.initialized
    /\ CallWrapped
    /\ CallError # R(0)
    /\ last_call.input # last_call.before.last_input
    /\ test_pid.integral_sum # last_call.before.integral_sum

IsParseCall == probe.op = "bluetooth_parse_coordinates"

\* C26: bluetooth_parse_coordinates never writes past its 32-byte
\* temporaries: for every command bluetooth_read_line can deliver into the
\* 128-byte buffer, the parts copied into lat_str and lng_str occupy at most
\* 32 bytes each, terminator included, or the command is rejected before
\* anything is copied.
C26_WithinTemporaries ==
    IsParseCall =>
        /\ probe.before[1].lat_str <= LAT_STR_SIZE
        /\ probe.before[1].lng_str <= LNG_STR_SIZE

\* C26 for lat_str alone: the length test of line 94 keeps the copy of the
\* latitude part inside lat_str
C26_LatWithinTemporary ==
    IsParseCall => probe.before[1].lat_str <= LAT_STR_SIZE

=============================================================================
